---- MODULE Spec2Model ----
(***************************************************************************)
(* Token program of solana-labs/example-token: the account state codec     *)
(* (State::deserialize / State::serialize), the instruction codec          *)
(* (Command::deserialize / Command::serialize) and the five instruction    *)
(* rules of program/src/state.rs, run by the entry point of                *)
(* program/src/processor.rs over a fixed set of accounts.                  *)
(*                                                                         *)
(* A buffer is a sequence of cells.  Cell 1 is the one-byte discriminant;  *)
(* every field of the payload struct takes one cell, in declaration order  *)
(* (Token: supply, decimals; TokenAccount: token, owner, amount, the tag   *)
(* of the Option, delegate.source, delegate.original_amount).  u64 values  *)
(* are scaled to 0..MaxAmount and wrap modulo MaxAmount + 1.               *)
(***************************************************************************)
EXTENDS Integers, Sequences, FiniteSets, TLC

\* ------------------------------------------------------------------ bounds
\* largest value of the scaled u64
MaxAmount == 2

Modulus == MaxAmount + 1
Amounts == 0 .. MaxAmount

\* ------------------------------------------------------------ the accounts
\* Pubkeys of the accounts the host can hand to the program.  W1 and W2 are
\* wallets (system accounts without data), M is sized for a Token, A, B and
\* D are sized for a TokenAccount.  F and G are accounts of another
\* program, sized for a TokenAccount.
NoKey == 0
W1 == 1
W2 == 2
M == 3
A == 4
B == 5
D == 6
F == 7
G == 8

Keys == {W1, W2, M, A, B, D, F, G}

\* Pubkeys of programs: the token program, the system program that owns the
\* wallets, and another program
TokenProgram == 11
SystemProgram == 12
OtherProgram == 13

\* the program that owns each account
ProgramOf(k) ==
    IF k \in {W1, W2} THEN SystemProgram
    ELSE IF k \in {F, G} THEN OtherProgram
    ELSE TokenProgram

\* size_of in cells
SizeOfU8 == 1
SizeOfToken == 2
SizeOfTokenAccount == 6
SizeOfU64 == 1

\* length of the data buffer the host allocated for each account
DataLen(k) ==
    IF k \in {W1, W2} THEN 0
    ELSE IF k = M THEN SizeOfU8 + SizeOfToken
    ELSE SizeOfU8 + SizeOfTokenAccount

Zeroes(n) == [i \in 1 .. n |-> 0]

\* ------------------------------------------------------------------- types
TokenDefault == [supply |-> 0, decimals |-> 0]
NoDelegate == [some |-> FALSE, source |-> NoKey, original_amount |-> 0]
SomeDelegate(source, original_amount) ==
    [some |-> TRUE, source |-> source, original_amount |-> original_amount]
TokenAccountDefault ==
    [token |-> NoKey, owner |-> NoKey, amount |-> 0, delegate |-> NoDelegate]

\* decimals of the descriptors minted
Decimals == 2

\* enum State; the payload a variant does not carry is the default value
Unallocated == [tag |-> "Unallocated", token |-> TokenDefault, account |-> TokenAccountDefault]
TokenState(t) == [tag |-> "Token", token |-> t, account |-> TokenAccountDefault]
AccountState(a) == [tag |-> "Account", token |-> TokenDefault, account |-> a]
Invalid == [tag |-> "Invalid", token |-> TokenDefault, account |-> TokenAccountDefault]

\* enum Command
Command_NewToken(t) == [tag |-> "NewToken", token |-> t, amount |-> 0]
Command_NewTokenAccount == [tag |-> "NewTokenAccount", token |-> TokenDefault, amount |-> 0]
Command_Transfer(n) == [tag |-> "Transfer", token |-> TokenDefault, amount |-> n]
Command_Approve(n) == [tag |-> "Approve", token |-> TokenDefault, amount |-> n]
Command_SetOwner == [tag |-> "SetOwner", token |-> TokenDefault, amount |-> 0]

\* AccountInfo: the key, the signer flag and the owning program; the data
\* lives in the variable data, under the key
AccountInfo(k, s) == [key |-> k, is_signer |-> s, owner |-> ProgramOf(k)]

\* ------------------------------------------------------------- state codec
\* mutant of AccountCells: the delegate is not stored
AccountCells_delegate_dropped(a) == << a.token, a.owner, a.amount, 0, NoKey, 0 >>

\* the cells 2..7 of a TokenAccount; a None delegate is stored as zeroes
AccountCells(a) ==
    << a.token, a.owner, a.amount,
       IF a.delegate.some THEN 1 ELSE 0,
       IF a.delegate.some THEN a.delegate.source ELSE NoKey,
       IF a.delegate.some THEN a.delegate.original_amount ELSE 0 >>

\* the prefix of buf overwritten by the cells, the rest kept
Overwrite(buf, cells) ==
    [i \in 1 .. Len(buf) |-> IF i <= Len(cells) THEN cells[i] ELSE buf[i]]

\* mutant of deserialize_unallocated: a whole State is required
deserialize_unallocated_sized(input) ==
    IF Len(input) < SizeOfU8 + SizeOfTokenAccount
    THEN [err |-> "InvalidUserdata", state |-> Invalid]
    ELSE [err |-> "Ok", state |-> Unallocated]

\* state.rs 329: discriminant 0, the rest of the input is not read
deserialize_unallocated(input) == [err |-> "Ok", state |-> Unallocated]

State_deserialize(input) ==
    IF Len(input) < SizeOfU8 THEN [err |-> "InvalidUserdata", state |-> Invalid]
    ELSE IF input[1] = 0 THEN deserialize_unallocated(input)
    ELSE IF input[1] = 1 THEN
        IF Len(input) < SizeOfU8 + SizeOfToken
        THEN [err |-> "InvalidUserdata", state |-> Invalid]
        ELSE [err |-> "Ok",
              state |-> TokenState([supply |-> input[2], decimals |-> input[3]])]
    ELSE IF input[1] = 2 THEN
        IF Len(input) < SizeOfU8 + SizeOfTokenAccount
        THEN [err |-> "InvalidUserdata", state |-> Invalid]
        ELSE [err |-> "Ok",
              state |-> AccountState(
                  [token |-> input[2], owner |-> input[3], amount |-> input[4],
                   delegate |-> IF input[5] = 0 THEN NoDelegate
                                ELSE SomeDelegate(input[6], input[7])])]
    ELSE IF input[1] = 3 THEN [err |-> "Ok", state |-> Invalid]
    ELSE [err |-> "InvalidUserdata", state |-> Invalid]

State_serialize(self, output) ==
    IF Len(output) < SizeOfU8 THEN [err |-> "InvalidUserdata", out |-> output]
    ELSE IF self.tag = "Unallocated" THEN [err |-> "Ok", out |-> Overwrite(output, <<0>>)]
    ELSE IF self.tag = "Token" THEN
        IF Len(output) < SizeOfU8 + SizeOfToken
        THEN [err |-> "InvalidUserdata", out |-> output]
        ELSE [err |-> "Ok",
              out |-> Overwrite(output, <<1, self.token.supply, self.token.decimals>>)]
    ELSE IF self.tag = "Account" THEN
        IF Len(output) < SizeOfU8 + SizeOfTokenAccount
        THEN [err |-> "InvalidUserdata", out |-> output]
        ELSE [err |-> "Ok", out |-> Overwrite(output, <<2>> \o AccountCells(self.account))]
    ELSE [err |-> "Ok", out |-> Overwrite(output, <<3>>)]

\* ------------------------------------------------------- instruction codec
Command_deserialize(input) ==
    IF Len(input) < SizeOfU8 THEN [err |-> "InvalidUserdata", command |-> Command_SetOwner]
    ELSE IF input[1] = 0 THEN
        IF Len(input) < SizeOfU8 + SizeOfToken
        THEN [err |-> "InvalidUserdata", command |-> Command_SetOwner]
        ELSE [err |-> "Ok",
              command |-> Command_NewToken([supply |-> input[2], decimals |-> input[3]])]
    ELSE IF input[1] = 1 THEN [err |-> "Ok", command |-> Command_NewTokenAccount]
    ELSE IF input[1] = 2 THEN
        IF Len(input) < SizeOfU8 + SizeOfU64
        THEN [err |-> "InvalidUserdata", command |-> Command_SetOwner]
        ELSE [err |-> "Ok", command |-> Command_Transfer(input[2])]
    ELSE IF input[1] = 3 THEN
        IF Len(input) < SizeOfU8 + SizeOfU64
        THEN [err |-> "InvalidUserdata", command |-> Command_SetOwner]
        ELSE [err |-> "Ok", command |-> Command_Approve(input[2])]
    ELSE IF input[1] = 4 THEN [err |-> "Ok", command |-> Command_SetOwner]
    ELSE [err |-> "InvalidUserdata", command |-> Command_SetOwner]

\* the instruction bytes a client builds for a command, in a buffer of
\* size_of::<Command>() zeroes
Command_serialize(self) ==
    IF self.tag = "NewToken" THEN <<0, self.token.supply, self.token.decimals>>
    ELSE IF self.tag = "NewTokenAccount" THEN <<1, 0, 0>>
    ELSE IF self.tag = "Transfer" THEN <<2, self.amount, 0>>
    ELSE IF self.tag = "Approve" THEN <<3, self.amount, 0>>
    ELSE <<4, 0, 0>>

\* mutant of next_account_info: the error of a failed check
next_account_info_invalid(accounts, i) ==
    IF i <= Len(accounts) THEN "Ok" ELSE "InvalidArgument"

\* Return the next AccountInfo or a NotEnoughAccountKeys error; i is the
\* position of the iterator
next_account_info(accounts, i) ==
    IF i <= Len(accounts) THEN "Ok" ELSE "NotEnoughAccountKeys"

\* ------------------------------------------------------------ u64 arithmetic
\* a -= b on u64: a build with overflow checks panics when b > a, a build
\* without them wraps
SubU64(a, b, overflow_checks) ==
    IF a >= b THEN [panic |-> FALSE, value |-> a - b]
    ELSE IF overflow_checks THEN [panic |-> TRUE, value |-> a]
    ELSE [panic |-> FALSE, value |-> (a + Modulus - b) % Modulus]

\* ------------------------------------------------------- instruction rules
\* Every rule returns the error ("Ok" on success) and the account data as
\* the rule leaves it.
Result(err, d) == [err |-> err, data |-> d]

\* the buffer of info overwritten with the encoding of state, when it fits
Store(d, info, ser) == [d EXCEPT ![info.key] = ser.out]

\* mutant of newtoken_allocated: the check is missing
newtoken_allocated_never(state) == FALSE

\* state.rs 109: the account of the new token is already allocated
newtoken_allocated(state) == Unallocated # state

\* state.rs 109-113: the new token is written once the destination is
newtoken_token(new_account_info, token, d) ==
    LET new == State_deserialize(d[new_account_info.key]) IN
    IF new.err # "Ok" THEN Result(new.err, d)
    ELSE IF newtoken_allocated(new.state) THEN Result("InvalidArgument", d)
    ELSE LET ser == State_serialize(TokenState(token), d[new_account_info.key]) IN
         IF ser.err # "Ok" THEN Result(ser.err, d)
         ELSE Result("Ok", Store(d, new_account_info, ser))

\* state.rs 97: a delegate record cannot be minted to
newtoken_dest_is_delegate(dest_token_account) == dest_token_account.delegate.some

\* mutant of newtoken_amount: the wrong field of the descriptor
newtoken_amount_decimals(dest_token_account, token) ==
    [dest_token_account EXCEPT !.amount = token.decimals]

\* state.rs 102: the destination holds the whole supply
newtoken_amount(dest_token_account, token) ==
    [dest_token_account EXCEPT !.amount = token.supply]

process_newtoken(accounts, token, d) ==
    IF next_account_info(accounts, 1) # "Ok" THEN Result(next_account_info(accounts, 1), d)
    ELSE IF next_account_info(accounts, 2) # "Ok" THEN Result(next_account_info(accounts, 2), d)
    ELSE
    LET new_account_info == accounts[1]
        dest_account_info == accounts[2]
        dest == State_deserialize(d[dest_account_info.key])
    IN
    IF dest.err # "Ok" THEN Result(dest.err, d)
    ELSE IF dest.state.tag = "Account" THEN
        LET dest_token_account == dest.state.account IN
        IF ~new_account_info.is_signer THEN Result("InvalidArgument", d)
        ELSE IF new_account_info.key # dest_token_account.token THEN Result("InvalidArgument", d)
        ELSE IF newtoken_dest_is_delegate(dest_token_account) THEN Result("InvalidArgument", d)
        ELSE LET ser == State_serialize(
                        AccountState(newtoken_amount(dest_token_account, token)),
                        d[dest_account_info.key])
             IN
             IF ser.err # "Ok" THEN Result(ser.err, d)
             ELSE newtoken_token(new_account_info, token, Store(d, dest_account_info, ser))
    ELSE Result("InvalidArgument", d)

\* mutant of newaccount_allocated: the check is missing
newaccount_allocated_never(state) == FALSE

\* state.rs 123: the new account is already allocated
newaccount_allocated(state) == Unallocated # state

process_newaccount(accounts, d) ==
    IF next_account_info(accounts, 1) # "Ok" THEN Result(next_account_info(accounts, 1), d)
    ELSE IF next_account_info(accounts, 2) # "Ok" THEN Result(next_account_info(accounts, 2), d)
    ELSE IF next_account_info(accounts, 3) # "Ok" THEN Result(next_account_info(accounts, 3), d)
    ELSE
    LET new_account_info == accounts[1]
        owner_account_info == accounts[2]
        token_account_info == accounts[3]
        new == State_deserialize(d[new_account_info.key])
    IN
    IF new.err # "Ok" THEN Result(new.err, d)
    ELSE IF newaccount_allocated(new.state) THEN Result("InvalidArgument", d)
    ELSE
    LET token_account ==
            [token |-> token_account_info.key,
             owner |-> owner_account_info.key,
             amount |-> 0,
             delegate |-> IF next_account_info(accounts, 4) = "Ok"
                          THEN SomeDelegate(accounts[4].key, 0)
                          ELSE NoDelegate]
        ser == State_serialize(AccountState(token_account), d[new_account_info.key])
    IN
    IF ser.err # "Ok" THEN Result(ser.err, d)
    ELSE Result("Ok", Store(d, new_account_info, ser))

\* state.rs 204-205: the destination's amount and its write
transfer_dest(dest_account_info, dest_account, amount, overflow_checks, d) ==
    LET sub == SubU64(dest_account.amount, amount, overflow_checks) IN
    IF sub.panic THEN Result("Panic", d)
    ELSE LET ser == State_serialize(AccountState([dest_account EXCEPT !.amount = sub.value]),
                                    d[dest_account_info.key])
         IN
         IF ser.err # "Ok" THEN Result(ser.err, d)
         ELSE Result("Ok", Store(d, dest_account_info, ser))

\* state.rs 176-202: the source account behind a delegate; delegate_account
\* has been written to its buffer already
transfer_delegate(accounts, delegate_account, amount, d) ==
    IF next_account_info(accounts, 4) # "Ok" THEN Result(next_account_info(accounts, 4), d)
    ELSE
    LET source_account_info == accounts[4]
        source == State_deserialize(d[source_account_info.key])
    IN
    IF source.err # "Ok" THEN Result(source.err, d)
    ELSE IF source.state.tag = "Account" THEN
        LET source_account == source.state.account IN
        IF source_account.token # delegate_account.token THEN Result("InvalidArgument", d)
        ELSE IF source_account_info.key # delegate_account.delegate.source
             THEN Result("InvalidArgument", d)
        ELSE IF source_account.amount < amount THEN Result("InsufficientFunds", d)
        ELSE LET ser == State_serialize(
                        AccountState([source_account EXCEPT !.amount = @ - amount]),
                        d[source_account_info.key])
             IN
             IF ser.err # "Ok" THEN Result(ser.err, d)
             ELSE Result("Ok", Store(d, source_account_info, ser))
    ELSE Result("InvalidArgument", d)

\* mutant of transfer_dest_is_delegate: the check is missing
transfer_dest_unchecked(dest_account) == FALSE

\* state.rs 159: a delegate record cannot be transferred to
transfer_dest_is_delegate(dest_account) == dest_account.delegate.some

\* mutant of transfer_owner_absent: the check is missing
transfer_owner_absent_never(owner_account_info, source_account) == FALSE

\* state.rs 164: the owner of the source has not signed
transfer_owner_absent(owner_account_info, source_account) ==
    ~owner_account_info.is_signer \/ owner_account_info.key # source_account.owner

\* mutant of transfer_insufficient: the operands swapped
transfer_insufficient_swapped(source_account, amount) == amount < source_account.amount

\* state.rs 169: the source (or the allowance) does not cover the amount
transfer_insufficient(source_account, amount) == source_account.amount < amount

process_transfer(accounts, amount, overflow_checks, d) ==
    IF next_account_info(accounts, 1) # "Ok" THEN Result(next_account_info(accounts, 1), d)
    ELSE IF next_account_info(accounts, 2) # "Ok" THEN Result(next_account_info(accounts, 2), d)
    ELSE IF next_account_info(accounts, 3) # "Ok" THEN Result(next_account_info(accounts, 3), d)
    ELSE
    LET owner_account_info == accounts[1]
        source_account_info == accounts[2]
        dest_account_info == accounts[3]
        source == State_deserialize(d[source_account_info.key])
        dest == State_deserialize(d[dest_account_info.key])
    IN
    IF source.err # "Ok" THEN Result(source.err, d)
    ELSE IF dest.err # "Ok" THEN Result(dest.err, d)
    ELSE IF source.state.tag = "Account" /\ dest.state.tag = "Account" THEN
        LET source_account == source.state.account
            dest_account == dest.state.account
        IN
        IF source_account.token # dest_account.token THEN Result("InvalidArgument", d)
        ELSE IF transfer_dest_is_delegate(dest_account) THEN Result("InvalidArgument", d)
        ELSE IF transfer_owner_absent(owner_account_info, source_account)
             THEN Result("InvalidArgument", d)
        ELSE IF transfer_insufficient(source_account, amount)
             THEN Result("InsufficientFunds", d)
        ELSE
        LET source_account1 == [source_account EXCEPT !.amount = @ - amount]
            ser == State_serialize(AccountState(source_account1), d[source_account_info.key])
        IN
        IF ser.err # "Ok" THEN Result(ser.err, d)
        ELSE
        LET d1 == Store(d, source_account_info, ser)
            payee == IF source_account1.delegate.some
                     THEN transfer_delegate(accounts, source_account1, amount, d1)
                     ELSE Result("Ok", d1)
        IN
        IF payee.err # "Ok" THEN payee
        ELSE transfer_dest(dest_account_info, dest_account, amount, overflow_checks,
                           payee.data)
    ELSE Result("InvalidArgument", d)

\* mutant of approve_allowance: original_amount left as created
approve_allowance_original_kept(delegate_account, amount) ==
    [delegate_account EXCEPT !.amount = amount]

\* mutant of approve_allowance: the allowance added to what is left
approve_allowance_added(delegate_account, amount) ==
    [delegate_account EXCEPT
        !.amount = (@ + amount) % Modulus,
        !.delegate = SomeDelegate(delegate_account.delegate.source,
                                  (delegate_account.delegate.original_amount + amount) % Modulus)]

\* mutant of approve_allowance: the record forgets the account it draws from
approve_allowance_source_dropped(delegate_account, amount) ==
    [delegate_account EXCEPT
        !.amount = amount,
        !.delegate = SomeDelegate(NoKey, amount)]

\* state.rs 251-255: the allowance is set, not added to
approve_allowance(delegate_account, amount) ==
    [delegate_account EXCEPT
        !.amount = amount,
        !.delegate = SomeDelegate(delegate_account.delegate.source, amount)]

\* mutant of approve_other_source: the check is missing
approve_other_source_never(source_account_info, delegate_account) == FALSE

\* state.rs 246: the record is not a delegate of the source account
approve_other_source(source_account_info, delegate_account) ==
    source_account_info.key # delegate_account.delegate.source

\* mutant of approve_written: the source's buffer is written
approve_written_source(source_account_info, delegate_account_info) == source_account_info

\* state.rs 256: the account whose buffer takes the new allowance
approve_written(source_account_info, delegate_account_info) == delegate_account_info

process_approve(accounts, amount, d) ==
    IF next_account_info(accounts, 1) # "Ok" THEN Result(next_account_info(accounts, 1), d)
    ELSE IF next_account_info(accounts, 2) # "Ok" THEN Result(next_account_info(accounts, 2), d)
    ELSE IF next_account_info(accounts, 3) # "Ok" THEN Result(next_account_info(accounts, 3), d)
    ELSE
    LET owner_account_info == accounts[1]
        source_account_info == accounts[2]
        delegate_account_info == accounts[3]
        source == State_deserialize(d[source_account_info.key])
        delegate == State_deserialize(d[delegate_account_info.key])
    IN
    IF source.err # "Ok" THEN Result(source.err, d)
    ELSE IF delegate.err # "Ok" THEN Result(delegate.err, d)
    ELSE IF source.state.tag = "Account" /\ delegate.state.tag = "Account" THEN
        LET source_account == source.state.account
            delegate_account == delegate.state.account
        IN
        IF source_account.token # delegate_account.token THEN Result("InvalidArgument", d)
        ELSE IF owner_account_info.key # source_account.owner \/ ~owner_account_info.is_signer
             THEN Result("InvalidArgument", d)
        ELSE IF source_account.delegate.some THEN Result("InvalidArgument", d)
        ELSE IF ~delegate_account.delegate.some THEN Result("InvalidArgument", d)
        ELSE IF approve_other_source(source_account_info, delegate_account)
             THEN Result("InvalidArgument", d)
        ELSE
        LET written == approve_written(source_account_info, delegate_account_info)
            ser == State_serialize(
                       AccountState(approve_allowance(delegate_account, amount)),
                       d[written.key])
        IN
        IF ser.err # "Ok" THEN Result(ser.err, d)
        ELSE Result("Ok", Store(d, written, ser))
    ELSE Result("InvalidArgument", d)

\* mutant of setowner_owner_absent: both conditions required to reject
setowner_owner_absent_and(owner_account_info, dest_account) ==
    owner_account_info.key # dest_account.owner /\ ~owner_account_info.is_signer

\* state.rs 274: the owner of the account has not signed
setowner_owner_absent(owner_account_info, dest_account) ==
    owner_account_info.key # dest_account.owner \/ ~owner_account_info.is_signer

\* mutant of setowner_owner: the owner that signed is kept
setowner_owner_kept(dest_account, new_owner_account_info) == dest_account

\* state.rs 279: the account is handed to the new owner
setowner_owner(dest_account, new_owner_account_info) ==
    [dest_account EXCEPT !.owner = new_owner_account_info.key]

process_setowner(accounts, d) ==
    IF next_account_info(accounts, 1) # "Ok" THEN Result(next_account_info(accounts, 1), d)
    ELSE IF next_account_info(accounts, 2) # "Ok" THEN Result(next_account_info(accounts, 2), d)
    ELSE IF next_account_info(accounts, 3) # "Ok" THEN Result(next_account_info(accounts, 3), d)
    ELSE
    LET owner_account_info == accounts[1]
        dest_account_info == accounts[2]
        new_owner_account_info == accounts[3]
        dest == State_deserialize(d[dest_account_info.key])
    IN
    IF dest.err # "Ok" THEN Result(dest.err, d)
    ELSE IF dest.state.tag = "Account" THEN
        LET dest_account == dest.state.account IN
        IF setowner_owner_absent(owner_account_info, dest_account)
        THEN Result("InvalidArgument", d)
        ELSE LET ser == State_serialize(
                        AccountState(setowner_owner(dest_account, new_owner_account_info)),
                        d[dest_account_info.key])
             IN
             IF ser.err # "Ok" THEN Result(ser.err, d)
             ELSE Result("Ok", Store(d, dest_account_info, ser))
    ELSE Result("InvalidArgument", d)

\* State::process: decode the instruction and run its rule; _program_id is
\* not read
process(program_id, accounts, input, overflow_checks, d) ==
    LET c == Command_deserialize(input) IN
    IF c.err # "Ok" THEN Result(c.err, d)
    ELSE IF c.command.tag = "NewToken" THEN process_newtoken(accounts, c.command.token, d)
    ELSE IF c.command.tag = "NewTokenAccount" THEN process_newaccount(accounts, d)
    ELSE IF c.command.tag = "Transfer"
         THEN process_transfer(accounts, c.command.amount, overflow_checks, d)
    ELSE IF c.command.tag = "Approve" THEN process_approve(accounts, c.command.amount, d)
    ELSE process_setowner(accounts, d)

\* the entry point's status: SUCCESS, FAILURE, or no status when the
\* program aborted
SUCCESS == 0
FAILURE == 1
ABORTED == 2

\* enum TokenError
TokenErrors ==
    {"MissingSigner", "InvalidArgument", "InvalidUserdata", "InsufficientFunds",
     "NotEnoughAccountKeys", "TokenMismatch", "NotDelegate", "NoOwner"}

\* mutant of entry_status: the error is dropped
entry_status_dropped(err) == IF err = "Panic" THEN ABORTED ELSE SUCCESS

\* processor.rs 12-18: the match on the result of State::process
entry_status(err) ==
    IF err = "Ok" THEN SUCCESS
    ELSE IF err = "Panic" THEN ABORTED ELSE FAILURE

process_instruction(program_id, accounts, input, overflow_checks, d) ==
    LET r == process(program_id, accounts, input, overflow_checks, d) IN
    [status |-> entry_status(r.err),
     err |-> r.err,
     data |-> r.data]

\* ------------------------------------------------------------ the machine
\* data: the data buffer of every account.
\* call: the call of the entry point the host has made and not yet consumed:
\*   its command, its accounts, its instruction bytes, the error the rule
\*   returned ("Ok" on success, "Panic" when the program aborted), the
\*   status of the entry point, and the data as it was when the call began
\*   (pre).  NoCall between two calls.
\* spent: for every account, the amount taken from another account's
\*   balance by delegated transfers through it since the last Approve that
\*   succeeded on it, or since it was created (history variable).
\* codec: the buffer a test of the codec holds and the last call it made on
\*   it: the operation, the state serialized last (self), the buffer before
\*   the call (pre) and before the last serialize (old), the buffer after it
\*   (buf), the error and the state returned, and whether buf is what a
\*   successful serialize of self left (written).
VARIABLES data, call, spent, codec

vars == <<data, call, spent, codec>>

Acc(k) == AccountInfo(k, FALSE)

\* the account at [0] of Transfer, Approve and SetOwner
Signers == {AccountInfo(W1, TRUE), AccountInfo(W2, TRUE), AccountInfo(W1, FALSE)}

\* the amounts a client sends: nothing, one unit and the largest value
SentAmounts == {0, 1, MaxAmount}

\* the descriptors a client mints
Tokens == {[supply |-> n, decimals |-> Decimals] : n \in SentAmounts}

\* the account lists a client sends with each command
NewTokenAccounts ==
    {<<n, Acc(x)>> : n \in {AccountInfo(M, TRUE), AccountInfo(M, FALSE), AccountInfo(W2, TRUE)},
                     x \in {A, B, D}}
    \cup {<<AccountInfo(M, TRUE)>>}

\* the calls of NewToken: every list with every descriptor, and the mint of
\* a token A into the account F, which names A as its token, with the
\* amount F holds already
NewTokenCalls ==
    (NewTokenAccounts \X Tokens)
    \cup {<< <<AccountInfo(A, TRUE), Acc(F)>>, [supply |-> 1, decimals |-> Decimals] >>}

NewAccountAccounts ==
    { <<Acc(A), Acc(W1), Acc(M)>>,
      <<Acc(B), Acc(W1), Acc(M)>>,
      <<Acc(B), Acc(W1), Acc(W2)>>,
      <<Acc(M), Acc(W1), Acc(M)>>,
      <<Acc(G), Acc(W1), Acc(M)>>,
      <<Acc(D), Acc(W2), Acc(M), Acc(A)>>,
      <<Acc(A), Acc(W1)>> }

\* source and destination, and the lists with a fourth account
Pairs == {x \in {A, B, D} \X {A, B, D} : x[1] # x[2]}
Triples == {<<D, A, B>>, <<D, B, A>>, <<A, B, D>>}

TransferAccounts ==
    {<<s, Acc(x[1]), Acc(x[2])>> : s \in Signers, x \in Pairs}
    \cup {<<s, Acc(x[1]), Acc(x[2]), Acc(x[3])>> :
             s \in {AccountInfo(W1, TRUE), AccountInfo(W2, TRUE)}, x \in Triples}
    \cup {<<AccountInfo(W1, TRUE), Acc(M), Acc(A)>>,
          <<AccountInfo(W1, TRUE), Acc(W2), Acc(D)>>,
          <<AccountInfo(W1, TRUE), Acc(A)>>}

ApproveAccounts ==
    {<<s, Acc(x[1]), Acc(x[2])>> : s \in Signers, x \in {<<A, D>>, <<B, D>>, <<D, A>>, <<A, B>>}}
    \cup {<<AccountInfo(W1, TRUE), Acc(A)>>, <<AccountInfo(W1, TRUE), Acc(W2), Acc(D)>>}

SetOwnerAccounts ==
    {<<s, Acc(x[1]), Acc(x[2])>> : s \in Signers, x \in {<<A, W1>>, <<A, W2>>, <<M, W2>>}}
    \cup {<<AccountInfo(W1, TRUE), Acc(A)>>,
          <<AccountInfo(W1, TRUE), Acc(F), Acc(W1)>>,
          <<AccountInfo(W2, TRUE), Acc(F), Acc(W1)>>}

\* instruction bytes no command decodes from
BadInputs == {<< >>, <<5>>, <<2>>, <<0, 1>>}

\* the decoded state of an account's buffer; a buffer that does not decode
\* reads as Invalid
StateOf(d, k) == State_deserialize(d[k]).state
IsAccount(d, k) == StateOf(d, k).tag = "Account"
IsToken(d, k) == StateOf(d, k).tag = "Token"
IsUnallocated(d, k) == State_deserialize(d[k]).err = "Ok" /\ StateOf(d, k).tag = "Unallocated"
IsDelegate(d, k) == IsAccount(d, k) /\ StateOf(d, k).account.delegate.some
IsHolding(d, k) == IsAccount(d, k) /\ ~StateOf(d, k).account.delegate.some
AccountOf(d, k) == StateOf(d, k).account
AmountOf(d, k) == StateOf(d, k).account.amount

\* the command the instruction bytes decode to, "None" when they do not
CommandTag(input) ==
    LET c == Command_deserialize(input) IN
    IF c.err = "Ok" THEN c.command.tag ELSE "None"

\* what the other program has written to its accounts: to F the bytes of a
\* holding account of token A, owned by W1, to G the discriminant of Invalid
ForeignData(k) ==
    IF k = F
    THEN State_serialize(
             AccountState([token |-> A, owner |-> W1, amount |-> 1, delegate |-> NoDelegate]),
             Zeroes(DataLen(k))).out
    ELSE State_serialize(Invalid, Zeroes(DataLen(k))).out

\* the accounts of the token program and the wallets start zero-filled
InitData ==
    [k \in Keys |-> IF k \in {F, G} THEN ForeignData(k) ELSE Zeroes(DataLen(k))]

NoCall ==
    [cmd |-> "Idle", accounts |-> << >>, input |-> << >>,
     err |-> "Ok", status |-> SUCCESS, pre |-> InitData]

\* the history variable after a call that found the data as d and left it
\* as e
Spent(accounts, input, d, e, err) ==
    LET cmd == CommandTag(input) IN
    [k \in Keys |->
        IF cmd = "Transfer" /\ Len(accounts) >= 4 /\ k = accounts[2].key
           /\ IsDelegate(d, k)
        THEN spent[k] + (AmountOf(d, accounts[4].key) - AmountOf(e, accounts[4].key))
        ELSE IF err = "Ok" /\ cmd \in {"Approve", "NewTokenAccount"}
                /\ k = accounts[IF cmd = "Approve" THEN 3 ELSE 1].key
        THEN 0
        ELSE spent[k]]

\* the host calls the entry point with one instruction; the program is
\* built with or without overflow checks
Invoke(accounts, input) ==
    /\ call = NoCall
    /\ \E r \in {process_instruction(TokenProgram, accounts, input, overflow_checks, data) :
                    overflow_checks \in BOOLEAN} :
        /\ data' = r.data
        /\ call' = [cmd |-> CommandTag(input), accounts |-> accounts, input |-> input,
                    err |-> r.err, status |-> r.status, pre |-> data]
        /\ spent' = Spent(accounts, input, data, r.data, r.err)
        /\ UNCHANGED codec

\* no test of the codec is running
CodecIdle ==
    [op |-> "idle", self |-> Unallocated, pre |-> << >>, old |-> << >>, buf |-> << >>,
     err |-> "Ok", state |-> Unallocated, written |-> FALSE]

Init ==
    /\ data = InitData
    /\ call = NoCall
    /\ spent = [k \in Keys |-> 0]
    /\ codec = CodecIdle

NewToken ==
    \E c \in NewTokenCalls :
        Invoke(c[1], Command_serialize(Command_NewToken(c[2])))

NewTokenAccount ==
    \E accounts \in NewAccountAccounts :
        Invoke(accounts, Command_serialize(Command_NewTokenAccount))

Transfer ==
    \E accounts \in TransferAccounts, amount \in SentAmounts :
        Invoke(accounts, Command_serialize(Command_Transfer(amount)))

Approve ==
    \E accounts \in ApproveAccounts, amount \in SentAmounts :
        Invoke(accounts, Command_serialize(Command_Approve(amount)))

SetOwner ==
    \E accounts \in SetOwnerAccounts :
        Invoke(accounts, Command_serialize(Command_SetOwner))

BadInstruction ==
    \E input \in BadInputs : Invoke(<<Acc(A), Acc(B), Acc(D)>>, input)

\* the host takes the status of the call and is ready for the next one
Return ==
    /\ call # NoCall
    /\ call' = NoCall
    /\ UNCHANGED <<data, spent, codec>>

Next ==
    \/ NewToken
    \/ NewTokenAccount
    \/ Transfer
    \/ Approve
    \/ SetOwner
    \/ BadInstruction
    \/ Return

Spec == Init /\ [][Next]_vars

\* ------------------------------------------------------ the codec's tests
\* the states a test serializes
CodecTokens == {[supply |-> n, decimals |-> m] : n \in Amounts, m \in {0, Decimals}}
CodecAccounts ==
    {[token |-> M, owner |-> o, amount |-> n, delegate |-> g] :
        o \in {W1, W2}, n \in Amounts,
        g \in {NoDelegate} \cup {SomeDelegate(A, m) : m \in Amounts}}
States ==
    {Unallocated, Invalid}
    \cup {TokenState(t) : t \in CodecTokens}
    \cup {AccountState(a) : a \in CodecAccounts}

\* the buffers a test starts from: every buffer of at most two cells, the
\* zero-filled buffers, and every prefix of an encoded Token, of an encoded
\* Account and of buffers of discriminant 0 and 3 with other bytes behind
CodecCells == 0 .. 4
MaxCodecLen == SizeOfU8 + SizeOfTokenAccount + 1
Prefixes(b) == {SubSeq(b, 1, n) : n \in 0 .. Len(b)}
Buffers ==
    {<< >>}
    \cup {<<x>> : x \in CodecCells}
    \cup {<<x, y>> : x \in CodecCells, y \in CodecCells}
    \cup {Zeroes(n) : n \in 0 .. MaxCodecLen}
    \cup Prefixes(<<1, 2, 2, 0, 0, 0, 0, 0>>)
    \cup Prefixes(<<2, M, W1, 1, 1, A, 2, 0>>)
    \cup Prefixes(<<0, M, W1, 1, 1, A, 2, 0>>)
    \cup Prefixes(<<3, 2, 2, 0, 0, 0, 0, 0>>)

CodecInit ==
    /\ data = InitData
    /\ call = NoCall
    /\ spent = [k \in Keys |-> 0]
    /\ codec \in {[CodecIdle EXCEPT !.pre = b, !.old = b, !.buf = b] : b \in Buffers}

\* self.serialize(&mut buf)
Serialize ==
    \E self \in States :
        LET r == State_serialize(self, codec.buf) IN
        /\ codec' = [op |-> "serialize", self |-> self, pre |-> codec.buf,
                     old |-> codec.buf, buf |-> r.out, err |-> r.err, state |-> self,
                     written |-> r.err = "Ok"]
        /\ UNCHANGED <<data, call, spent>>

\* State::deserialize(&buf)
Deserialize ==
    LET r == State_deserialize(codec.buf) IN
    /\ codec' = [op |-> "deserialize", self |-> codec.self, pre |-> codec.buf,
                 old |-> codec.old, buf |-> codec.buf, err |-> r.err, state |-> r.state,
                 written |-> codec.written]
    /\ UNCHANGED <<data, call, spent>>

CodecNext ==
    \/ Serialize
    \/ Deserialize

CodecSpec == CodecInit /\ [][CodecNext]_vars

\* ----------------------------------------------------------------- claims
\* what the claims read of the call the host has made
Called(cmd) == call.cmd = cmd
Succeeded == call.err = "Ok"
NumAccounts == Len(call.accounts)
At(i) == call.accounts[i].key
SignerAt(i) == call.accounts[i].is_signer
Command == Command_deserialize(call.input).command
Pre == call.pre

\* a Transfer whose account at [1] was a holding account / a delegate record
PlainTransfer == Called("Transfer") /\ NumAccounts >= 3 /\ IsHolding(Pre, At(2))
DelegatedTransfer == Called("Transfer") /\ NumAccounts >= 3 /\ IsDelegate(Pre, At(2))

\* C1: a successful non-delegated Transfer(amount) leaves the source [1]
\* with its old amount minus amount and the destination [2] with its old
\* amount plus amount.
C1_TransferMovesAmount ==
    (PlainTransfer /\ Succeeded) =>
        /\ AmountOf(data, At(2)) = AmountOf(Pre, At(2)) - Command.amount
        /\ AmountOf(data, At(3)) = AmountOf(Pre, At(3)) + Command.amount

\* C2: when an instruction returns an error, every account buffer is as it
\* was before the call.
C2_ErrorLeavesData ==
    (~Called("Idle") /\ call.err \notin {"Ok", "Panic"}) => data = Pre

\* C3: the amount of a holding account X is lowered by a call only when the
\* call is (a) a successful Transfer with X at [1], signed at [0] by X's
\* owner, or (b) a successful delegated Transfer with X at [3], the delegate
\* record at [1] naming X as its source and its owner signing at [0].
C3_LoweredOnlyBySource ==
    \A X \in Keys :
        (IsHolding(Pre, X) /\ AmountOf(data, X) < AmountOf(Pre, X)) =>
            /\ Called("Transfer")
            /\ Succeeded
            /\ NumAccounts >= 3
            /\ SignerAt(1)
            /\ At(1) = AccountOf(Pre, At(2)).owner
            /\ \/ X = At(2)
               \/ /\ NumAccounts >= 4
                  /\ X = At(4)
                  /\ IsDelegate(Pre, At(2))
                  /\ AccountOf(Pre, At(2)).delegate.source = X

\* C4: a successful MintToken(descriptor) had [0] Unallocated and a signer
\* and [1] a holding account of the token [0]; it leaves [0] decoding to
\* Token(descriptor) and [1] with amount = descriptor.supply and its token,
\* owner and delegate as they were.
C4_MintSetsSupply ==
    (Called("NewToken") /\ Succeeded) =>
        /\ NumAccounts >= 2
        /\ IsUnallocated(Pre, At(1))
        /\ SignerAt(1)
        /\ IsHolding(Pre, At(2))
        /\ AccountOf(Pre, At(2)).token = At(1)
        /\ State_deserialize(data[At(1)]) = [err |-> "Ok", state |-> TokenState(Command.token)]
        /\ IsAccount(data, At(2))
        /\ AccountOf(data, At(2)) =
               [AccountOf(Pre, At(2)) EXCEPT !.amount = Command.token.supply]

C4_Witness ==
    /\ Called("NewToken")
    /\ Succeeded
    /\ Command.token.supply = 1
    /\ AmountOf(data, At(2)) = 1

\* C5: once an account decodes to Token(d), every MintToken naming it at [0]
\* fails and leaves the amount of the account at [1] as it was, and no
\* instruction changes the account.
C5_MintedOnce ==
    \A k \in Keys :
        IsToken(Pre, k) =>
            /\ data[k] = Pre[k]
            /\ (Called("NewToken") /\ NumAccounts >= 2 /\ At(1) = k) =>
                   /\ ~Succeeded
                   /\ AmountOf(data, At(2)) = AmountOf(Pre, At(2))

\* the checks of a Transfer up to the balance of [1] pass
TransferChecksPass ==
    /\ Called("Transfer")
    /\ NumAccounts >= 3
    /\ IsAccount(Pre, At(2))
    /\ IsAccount(Pre, At(3))
    /\ AccountOf(Pre, At(2)).token = AccountOf(Pre, At(3)).token
    /\ ~IsDelegate(Pre, At(3))
    /\ SignerAt(1)
    /\ At(1) = AccountOf(Pre, At(2)).owner

\* C6: a successful delegated Transfer(amount) had a fourth account [3], an
\* Account of the token of [1], named by [1].delegate.source and holding at
\* least amount; it lowers [1].amount and [3].amount by amount and raises
\* [2].amount by amount.  With [3] of another token or identity the result
\* is InvalidArgument, with [3].amount < amount it is InsufficientFunds.
C6_DelegatedTransfer ==
    (DelegatedTransfer /\ TransferChecksPass /\ AmountOf(Pre, At(2)) >= Command.amount) =>
        /\ Succeeded =>
              /\ NumAccounts >= 4
              /\ IsAccount(Pre, At(4))
              /\ AccountOf(Pre, At(4)).token = AccountOf(Pre, At(2)).token
              /\ At(4) = AccountOf(Pre, At(2)).delegate.source
              /\ AmountOf(Pre, At(4)) >= Command.amount
              /\ AmountOf(data, At(2)) = AmountOf(Pre, At(2)) - Command.amount
              /\ AmountOf(data, At(4)) = AmountOf(Pre, At(4)) - Command.amount
              /\ AmountOf(data, At(3)) = AmountOf(Pre, At(3)) + Command.amount
        /\ (NumAccounts >= 4 /\ IsAccount(Pre, At(4))) =>
              IF \/ AccountOf(Pre, At(4)).token # AccountOf(Pre, At(2)).token
                 \/ At(4) # AccountOf(Pre, At(2)).delegate.source
              THEN call.err = "InvalidArgument"
              ELSE AmountOf(Pre, At(4)) < Command.amount => call.err = "InsufficientFunds"

\* C7: a delegate record's amount never exceeds its original_amount, and
\* the amount taken from the source through the record since the last
\* Approve on it (or since it was created, with an allowance of 0) never
\* exceeds the amount of that Approve.
C7_AllowanceBoundsSpending ==
    \A k \in Keys :
        LET record == StateOf(data, k) IN
        (record.tag = "Account" /\ record.account.delegate.some) =>
            /\ record.account.amount <= record.account.delegate.original_amount
            /\ spent[k] <= record.account.delegate.original_amount

C7_Witness ==
    /\ DelegatedTransfer
    /\ Succeeded
    /\ Command.amount = 1
    /\ spent[At(2)] = 2
    /\ AccountOf(data, At(2)).delegate.original_amount = 2
    /\ AmountOf(data, At(4)) = AmountOf(Pre, At(4)) - 1

\* C8: a Transfer(amount) with [1].amount < amount, every other check
\* passing, returns InsufficientFunds and leaves [1] and [2] as they were.
C8_InsufficientFunds ==
    (TransferChecksPass /\ AmountOf(Pre, At(2)) < Command.amount) =>
        /\ call.err = "InsufficientFunds"
        /\ data[At(2)] = Pre[At(2)]
        /\ data[At(3)] = Pre[At(3)]

C8_Witness ==
    /\ TransferChecksPass
    /\ IsHolding(Pre, At(2))
    /\ AmountOf(Pre, At(2)) = 1
    /\ Command.amount = 2
    /\ call.err = "InsufficientFunds"

\* C9: a SetOwner whose account at [0] is not a signer, or is not the owner
\* of the Account at [1], returns InvalidArgument and leaves [1] as it was.
C9_SetOwnerUnauthorized ==
    (/\ Called("SetOwner")
     /\ NumAccounts >= 3
     /\ IsAccount(Pre, At(2))
     /\ (~SignerAt(1) \/ At(1) # AccountOf(Pre, At(2)).owner)) =>
        /\ call.err = "InvalidArgument"
        /\ data[At(2)] = Pre[At(2)]

C9_Witness ==
    /\ Called("SetOwner")
    /\ NumAccounts >= 3
    /\ IsAccount(Pre, At(2))
    /\ SignerAt(1)
    /\ At(1) # AccountOf(Pre, At(2)).owner
    /\ At(3) # AccountOf(Pre, At(2)).owner
    /\ call.err = "InvalidArgument"

\* the amount of a delegate record is raised by a successful Approve only
DelegateRaisedByApproveOnly ==
    \A k \in Keys :
        (IsDelegate(Pre, k) /\ AmountOf(data, k) > AmountOf(Pre, k)) =>
            /\ Called("Approve")
            /\ Succeeded
            /\ At(3) = k

\* C10 as stated: a MintToken with a delegate record at [1] and a Transfer
\* with a delegate record at [2] fail with InvalidArgument, and the amount
\* of a delegate record is raised by a successful Approve only.
C10_DelegateNeverReceives ==
    /\ (Called("NewToken") /\ NumAccounts >= 2 /\ IsDelegate(Pre, At(2))) =>
           call.err = "InvalidArgument"
    /\ (Called("Transfer") /\ NumAccounts >= 3 /\ IsDelegate(Pre, At(3))) =>
           call.err = "InvalidArgument"
    /\ DelegateRaisedByApproveOnly

\* C10 as amended: the Transfer fails with InvalidArgument when the buffer
\* of [1] decodes, and with InvalidUserdata when it does not.
C10_DelegateNeverReceivesDecoded ==
    /\ (Called("NewToken") /\ NumAccounts >= 2 /\ IsDelegate(Pre, At(2))) =>
           call.err = "InvalidArgument"
    /\ (Called("Transfer") /\ NumAccounts >= 3 /\ IsDelegate(Pre, At(3))) =>
           call.err = IF State_deserialize(Pre[At(2)]).err = "Ok"
                      THEN "InvalidArgument" ELSE "InvalidUserdata"
    /\ DelegateRaisedByApproveOnly

C10_Witness ==
    /\ Called("Transfer")
    /\ NumAccounts >= 3
    /\ IsDelegate(Pre, At(3))
    /\ IsHolding(Pre, At(2))
    /\ AccountOf(Pre, At(2)).token = AccountOf(Pre, At(3)).token
    /\ SignerAt(1)
    /\ At(1) = AccountOf(Pre, At(2)).owner
    /\ AmountOf(Pre, At(2)) >= Command.amount
    /\ Command.amount > 0
    /\ call.err = "InvalidArgument"
    /\ data = Pre

\* C11: a buffer that a call changed and that decoded to Token still decodes
\* to Token, one that decoded to Account still decodes to Account, whatever
\* the outcome of the call; a buffer that decoded to Unallocated and no
\* longer does has been named at [0] by a successful CreateAccount (it is an
\* Account now) or by a successful MintToken (it is a Token now).
C11_OneWayGate ==
    \A k \in Keys :
        (~Called("Idle") /\ data[k] # Pre[k]) =>
        /\ IsToken(Pre, k) => IsToken(data, k)
        /\ IsAccount(Pre, k) => IsAccount(data, k)
        /\ (IsUnallocated(Pre, k) /\ ~IsUnallocated(data, k)) =>
               /\ Succeeded
               /\ NumAccounts >= 1
               /\ At(1) = k
               /\ \/ Called("NewTokenAccount") /\ IsAccount(data, k)
                  \/ Called("NewToken") /\ IsToken(data, k)

\* a MintToken names at [0] an account that is an Account already, with
\* every check before the one on [0] passing
C11_Witness ==
    /\ Called("NewToken")
    /\ NumAccounts >= 2
    /\ SignerAt(1)
    /\ IsAccount(Pre, At(1))
    /\ IsHolding(Pre, At(2))
    /\ AccountOf(Pre, At(2)).token = At(1)
    /\ call.err = "InvalidArgument"
    /\ IsAccount(data, At(1))

\* the positions (counted from 1) whose buffer a rule decodes
Decoded(cmd) ==
    IF cmd = "NewToken" THEN {1, 2}
    ELSE IF cmd = "NewTokenAccount" THEN {1}
    ELSE IF cmd = "Transfer" THEN {2, 3} \cup (IF IsDelegate(Pre, At(2)) THEN {4} ELSE {})
    ELSE IF cmd = "Approve" THEN {2, 3}
    ELSE IF cmd = "SetOwner" THEN {2}
    ELSE {}

\* C12: a call that has all the accounts of its command and, at a position
\* whose buffer the rule decodes, an account owned by another program than
\* the program_id passed to process, fails and leaves that buffer as it was.
C12_ForeignIsInvalid ==
    \A i \in 1 .. NumAccounts :
        (/\ i \in Decoded(call.cmd)
         /\ NumAccounts >= (IF Called("NewToken") THEN 2 ELSE 3)
         /\ call.accounts[i].owner # TokenProgram) =>
            /\ ~Succeeded
            /\ data[At(i)] = Pre[At(i)]

\* C13: a successful Approve(amount) leaves the delegate record [2] with
\* amount = amount and delegate.original_amount = amount, whatever they
\* were, with its delegate.source, token and owner kept, and leaves the
\* source [1] as it was.
C13_ApproveSetsAllowance ==
    (Called("Approve") /\ Succeeded) =>
        /\ NumAccounts >= 3
        /\ IsDelegate(Pre, At(3))
        /\ IsAccount(data, At(3))
        /\ AccountOf(data, At(3)) =
               [AccountOf(Pre, At(3)) EXCEPT
                   !.amount = Command.amount,
                   !.delegate.original_amount = Command.amount]
        /\ data[At(2)] = Pre[At(2)]

\* an Approve(1) on a record that an earlier Approve(2) left partly spent
C13_Witness ==
    /\ Called("Approve")
    /\ Succeeded
    /\ AccountOf(Pre, At(3)).delegate.original_amount = 2
    /\ AmountOf(Pre, At(3)) = 1
    /\ Command.amount = 1
    /\ AccountOf(data, At(3)).delegate.original_amount = 1
    /\ AmountOf(data, At(3)) = 1

\* the Account a CreateAccount builds from the identities of its accounts
NewAccountOf(accounts) ==
    [token |-> accounts[3].key,
     owner |-> accounts[2].key,
     amount |-> 0,
     delegate |-> IF Len(accounts) >= 4 THEN SomeDelegate(accounts[4].key, 0)
                  ELSE NoDelegate]

\* C14: a successful CreateAccount had [0] decoding to Unallocated and
\* leaves [0] decoding to the Account with token = key of [2], owner = key
\* of [1], amount = 0 and delegate = None with three accounts, Some{source:
\* key of [3], original_amount: 0} with four; with [0] decoding to a Token,
\* an Account or Invalid the result is InvalidArgument and [0] is as it was.
C14_CreateAccount ==
    (Called("NewTokenAccount") /\ NumAccounts >= 3) =>
        /\ Succeeded =>
              /\ IsUnallocated(Pre, At(1))
              /\ State_deserialize(data[At(1)]) =
                     [err |-> "Ok", state |-> AccountState(NewAccountOf(call.accounts))]
        /\ (/\ State_deserialize(Pre[At(1)]).err = "Ok"
            /\ StateOf(Pre, At(1)).tag \in {"Token", "Account", "Invalid"}) =>
              /\ call.err = "InvalidArgument"
              /\ data[At(1)] = Pre[At(1)]

\* a CreateAccount with a fourth account has made a delegate record
C14_Witness ==
    /\ Called("NewTokenAccount")
    /\ Succeeded
    /\ NumAccounts >= 4
    /\ IsDelegate(data, At(1))
    /\ AccountOf(data, At(1)).delegate.source = At(4)

\* what the claims read of the codec's last call
Serialized == codec.op = "serialize"
Deserialized == codec.op = "deserialize"

\* C15: serialize of Unallocated and of Invalid returns an error whatever the
\* buffer, and leaves the buffer as it was.
C15_UnserializableState ==
    (Serialized /\ codec.self.tag \in {"Unallocated", "Invalid"}) =>
        /\ codec.err # "Ok"
        /\ codec.buf = codec.pre

\* C16: deserialize of a buffer whose first cell is not 0, 1 or 2 returns an
\* error.
C16_BadDiscriminant ==
    (Deserialized /\ Len(codec.pre) >= 1 /\ codec.pre[1] \notin {0, 1, 2}) =>
        codec.err # "Ok"

\* C17: deserialize returns an error on an empty buffer, on a buffer of
\* discriminant 1 shorter than 1 + the size of Token and on a buffer of
\* discriminant 2 shorter than 1 + the size of TokenAccount; a buffer of
\* discriminant 0 decodes to Unallocated whatever its length and the bytes
\* behind the discriminant.
C17_DeserializeLengths ==
    Deserialized =>
        /\ Len(codec.pre) = 0 => codec.err # "Ok"
        /\ (/\ Len(codec.pre) >= 1
            /\ codec.pre[1] = 1
            /\ Len(codec.pre) < SizeOfU8 + SizeOfToken) => codec.err # "Ok"
        /\ (/\ Len(codec.pre) >= 1
            /\ codec.pre[1] = 2
            /\ Len(codec.pre) < SizeOfU8 + SizeOfTokenAccount) => codec.err # "Ok"
        /\ (Len(codec.pre) >= 1 /\ codec.pre[1] = 0) =>
               /\ codec.err = "Ok"
               /\ codec.state = Unallocated

\* a buffer of discriminant 0 with other bytes behind it, too short for a
\* TokenAccount
C17_Witness ==
    /\ Deserialized
    /\ codec.pre = <<0, M, W1, 1>>
    /\ codec.err = "Ok"
    /\ codec.state = Unallocated

\* C18: serialize of a Token or an Account into a buffer of at least 1 + the
\* size of the payload succeeds, and deserialize of the buffer it leaves
\* returns the state serialized, whatever the buffer held before.
C18_RoundTrip ==
    /\ (/\ Serialized
        /\ \/ codec.self.tag = "Token" /\ Len(codec.pre) >= SizeOfU8 + SizeOfToken
           \/ codec.self.tag = "Account" /\ Len(codec.pre) >= SizeOfU8 + SizeOfTokenAccount)
           => codec.err = "Ok"
    /\ (Deserialized /\ codec.written /\ codec.self.tag \in {"Token", "Account"}) =>
           /\ codec.err = "Ok"
           /\ codec.state = codec.self

\* a delegate record read back from a buffer that held a Token before
C18_Witness ==
    /\ Deserialized
    /\ codec.written
    /\ State_deserialize(codec.old).state.tag = "Token"
    /\ codec.self.tag = "Account"
    /\ codec.self.account.delegate.some
    /\ codec.self.account.delegate.original_amount = 2
    /\ codec.state = codec.self

\* a call with fewer accounts than its command takes
TooFewAccounts ==
    \/ Called("NewToken") /\ NumAccounts < 2
    \/ call.cmd \in {"NewTokenAccount", "Transfer", "Approve", "SetOwner"} /\ NumAccounts < 3

\* C19 as stated: a call with fewer accounts than its command takes, and a
\* Transfer with exactly three accounts whose [1] is a delegate record,
\* return NotEnoughAccountKeys.
C19_NotEnoughAccounts ==
    /\ TooFewAccounts => call.err = "NotEnoughAccountKeys"
    /\ (DelegatedTransfer /\ NumAccounts = 3) => call.err = "NotEnoughAccountKeys"

\* C19 as amended: the Transfer with three accounts and a delegate record
\* at [1] returns NotEnoughAccountKeys when the checks made before [3] is
\* asked for pass: [1] and [2] are Accounts of one token, [2] is not a
\* delegate record, [0] is a signer and the owner of [1], and [1].amount
\* covers the amount.
C19_NotEnoughAccountsChecked ==
    /\ TooFewAccounts => call.err = "NotEnoughAccountKeys"
    /\ (/\ DelegatedTransfer
        /\ NumAccounts = 3
        /\ TransferChecksPass
        /\ AmountOf(Pre, At(2)) >= Command.amount) => call.err = "NotEnoughAccountKeys"

\* a Transfer(1) through a delegate record with an allowance, signed by its
\* owner, without the fourth account
C19_Witness ==
    /\ DelegatedTransfer
    /\ NumAccounts = 3
    /\ TransferChecksPass
    /\ Command.amount = 1
    /\ AmountOf(Pre, At(2)) >= 1
    /\ call.err = "NotEnoughAccountKeys"

\* the positions (counted from 1) a rule writes on success
Written(cmd) ==
    IF cmd = "NewToken" THEN {1, 2}
    ELSE IF cmd = "NewTokenAccount" THEN {1}
    ELSE IF cmd = "Transfer" THEN {2, 3} \cup (IF IsDelegate(Pre, At(2)) THEN {4} ELSE {})
    ELSE IF cmd = "Approve" THEN {3}
    ELSE IF cmd = "SetOwner" THEN {2}
    ELSE {}

\* C20: after a successful call every buffer that differs from what it was
\* is the buffer of an account at a position its rule writes: [0] and [1]
\* for MintToken, [0] for CreateAccount, [1], [2] and (when [1] is a
\* delegate record) [3] for Transfer, [2] for Approve, [1] for SetOwner.
C20_WritesDesignatedOnly ==
    (~Called("Idle") /\ Succeeded) =>
        \A k \in Keys :
            data[k] # Pre[k] =>
                \E i \in Written(call.cmd) : i <= NumAccounts /\ At(i) = k

\* a successful delegated Transfer that changed the record, the destination
\* and the source behind the record
C20_Witness ==
    /\ DelegatedTransfer
    /\ Succeeded
    /\ NumAccounts >= 4
    /\ data[At(2)] # Pre[At(2)]
    /\ data[At(3)] # Pre[At(3)]
    /\ data[At(4)] # Pre[At(4)]
    /\ \A k \in Keys \ {At(2), At(3), At(4)} : data[k] = Pre[k]

\* C21: the status of the entry point is 0 exactly when the rule returned
\* Ok, and 1 exactly when the decoding of the instruction or the rule
\* returned a TokenError.
C21_StatusOfResult ==
    ~Called("Idle") =>
        /\ call.status = SUCCESS <=> call.err = "Ok"
        /\ call.status = FAILURE <=> call.err \in TokenErrors

\* a rule that returned InsufficientFunds, and the status 1
C21_Witness ==
    /\ Called("Transfer")
    /\ call.err = "InsufficientFunds"
    /\ call.status = FAILURE

\* the buffers of [1] and [2] of the call both decode
TransferDecodes ==
    /\ State_deserialize(Pre[At(2)]).err = "Ok"
    /\ State_deserialize(Pre[At(3)]).err = "Ok"

\* C22 as stated: a Transfer with three accounts or more returns
\* InvalidArgument, whatever the balance of [1], when [1] or [2] is not an
\* Account, their tokens differ, [2] is a delegate record, or [0] is not a
\* signer or not the owner of [1].
C22_TransferInvalidArgument ==
    (Called("Transfer") /\ NumAccounts >= 3 /\ ~TransferChecksPass) =>
        call.err = "InvalidArgument"

\* C22 as amended: the result is InvalidUserdata when the buffer of [1] or
\* of [2] does not decode to any state, and InvalidArgument otherwise.
C22_TransferInvalidArgumentDecoded ==
    (Called("Transfer") /\ NumAccounts >= 3 /\ ~TransferChecksPass) =>
        call.err = IF TransferDecodes THEN "InvalidArgument" ELSE "InvalidUserdata"

\* a Transfer of more than [1] holds, signed by another than its owner
C22_Witness ==
    /\ Called("Transfer")
    /\ NumAccounts >= 3
    /\ IsHolding(Pre, At(2))
    /\ IsHolding(Pre, At(3))
    /\ AccountOf(Pre, At(2)).token = AccountOf(Pre, At(3)).token
    /\ SignerAt(1)
    /\ At(1) # AccountOf(Pre, At(2)).owner
    /\ AmountOf(Pre, At(2)) < Command.amount
    /\ call.err = "InvalidArgument"

\* C23: a MintToken whose buffers at [0] and [1] decode returns
\* InvalidArgument and leaves [0] and [1] as they were when [1] is not an
\* Account, [0] is not a signer, [1].token is not the key of [0], [1] is a
\* delegate record, or [0] is not Unallocated.
C23_MintInvalidArgument ==
    (/\ Called("NewToken")
     /\ NumAccounts >= 2
     /\ State_deserialize(Pre[At(1)]).err = "Ok"
     /\ State_deserialize(Pre[At(2)]).err = "Ok"
     /\ \/ ~IsAccount(Pre, At(2))
        \/ ~SignerAt(1)
        \/ AccountOf(Pre, At(2)).token # At(1)
        \/ IsDelegate(Pre, At(2))
        \/ ~IsUnallocated(Pre, At(1))) =>
        /\ call.err = "InvalidArgument"
        /\ data[At(1)] = Pre[At(1)]
        /\ data[At(2)] = Pre[At(2)]

\* every check of an Approve passes
ApproveChecksPass ==
    /\ Called("Approve")
    /\ NumAccounts >= 3
    /\ IsAccount(Pre, At(2))
    /\ IsAccount(Pre, At(3))
    /\ AccountOf(Pre, At(2)).token = AccountOf(Pre, At(3)).token
    /\ SignerAt(1)
    /\ At(1) = AccountOf(Pre, At(2)).owner
    /\ ~IsDelegate(Pre, At(2))
    /\ IsDelegate(Pre, At(3))
    /\ AccountOf(Pre, At(3)).delegate.source = At(2)

\* the original_amount of a delegate record changes only in a successful
\* Approve that names it at [2] and passes every check
AllowanceSetBySourceOwnerOnly ==
    \A k \in Keys :
        (/\ ~Called("Idle")
         /\ data[k] # Pre[k]
         /\ IsDelegate(Pre, k)
         /\ AccountOf(data, k).delegate.original_amount
                # AccountOf(Pre, k).delegate.original_amount) =>
            /\ Succeeded
            /\ ApproveChecksPass
            /\ At(3) = k

\* C24 as stated: an Approve with three accounts that fails one of its
\* checks returns InvalidArgument and changes nothing; an Approve succeeds
\* only when every check passes, and only such an Approve sets the
\* allowance of a delegate record.
C24_ApproveInvalidArgument ==
    /\ (Called("Approve") /\ NumAccounts >= 3 /\ ~ApproveChecksPass) =>
           /\ call.err = "InvalidArgument"
           /\ data = Pre
    /\ (Called("Approve") /\ Succeeded) => ApproveChecksPass
    /\ AllowanceSetBySourceOwnerOnly

\* C24 as amended: the error is InvalidUserdata when the buffer of [1] or
\* of [2] does not decode to any state, and InvalidArgument otherwise.
C24_ApproveInvalidArgumentDecoded ==
    /\ (Called("Approve") /\ NumAccounts >= 3 /\ ~ApproveChecksPass) =>
           /\ call.err = IF TransferDecodes THEN "InvalidArgument" ELSE "InvalidUserdata"
           /\ data = Pre
    /\ (Called("Approve") /\ Succeeded) => ApproveChecksPass
    /\ AllowanceSetBySourceOwnerOnly

\* an Approve signed by the owner of a holding account that the record at
\* [2] does not name as its source
C24_Witness ==
    /\ Called("Approve")
    /\ NumAccounts >= 3
    /\ IsHolding(Pre, At(2))
    /\ IsDelegate(Pre, At(3))
    /\ AccountOf(Pre, At(2)).token = AccountOf(Pre, At(3)).token
    /\ SignerAt(1)
    /\ At(1) = AccountOf(Pre, At(2)).owner
    /\ AccountOf(Pre, At(3)).delegate.source # At(2)
    /\ Command.amount > 0
    /\ call.err = "InvalidArgument"
    /\ data = Pre

\* the call is a Transfer, an Approve or a SetOwner on the Account at [1]
\* and every check its rule makes before the owner's passes
OwnerCheckReached ==
    /\ call.cmd \in {"Transfer", "Approve", "SetOwner"}
    /\ NumAccounts >= 3
    /\ IsAccount(Pre, At(2))
    /\ call.cmd \in {"Transfer", "Approve"} =>
           /\ IsAccount(Pre, At(3))
           /\ AccountOf(Pre, At(2)).token = AccountOf(Pre, At(3)).token
    /\ Called("Transfer") => ~IsDelegate(Pre, At(3))

\* the account at [0] has signed and is the owner the buffer of [1] names
SignedByOwner == SignerAt(1) /\ At(1) = AccountOf(Pre, At(2)).owner

\* the call got past the owner check: its outcome is the one the checks
\* behind it decide
OwnerCheckPassed ==
    /\ Called("SetOwner") => Succeeded
    /\ (/\ Called("Approve")
        /\ ~IsDelegate(Pre, At(2))
        /\ IsDelegate(Pre, At(3))
        /\ AccountOf(Pre, At(3)).delegate.source = At(2)) => Succeeded
    /\ Called("Transfer") =>
           IF AmountOf(Pre, At(2)) < Command.amount
           THEN call.err = "InsufficientFunds"
           ELSE IsHolding(Pre, At(2)) => call.err \in {"Ok", "Panic"}

\* C25: a successful SetOwner changes the owner of [1] to the key of [2]
\* and nothing else of it; the owner of an Account changes in no other
\* call, so that until the next successful SetOwner on it the owner its
\* buffer names is the new one; and a Transfer, an Approve or a SetOwner on
\* an Account that reaches the owner check fails with InvalidArgument
\* unless the owner the buffer names has signed, and gets past the check
\* when it has.
C25_SetOwnerHandsOver ==
    /\ (Called("SetOwner") /\ Succeeded) =>
           /\ IsAccount(Pre, At(2))
           /\ IsAccount(data, At(2))
           /\ AccountOf(data, At(2)) = [AccountOf(Pre, At(2)) EXCEPT !.owner = At(3)]
    /\ \A k \in Keys :
           (/\ ~Called("Idle")
            /\ data[k] # Pre[k]
            /\ IsAccount(Pre, k)
            /\ AccountOf(data, k).owner # AccountOf(Pre, k).owner) =>
               /\ Called("SetOwner")
               /\ Succeeded
               /\ At(2) = k
    /\ OwnerCheckReached =>
           IF SignedByOwner THEN OwnerCheckPassed
           ELSE call.err = "InvalidArgument" /\ data = Pre

\* a Transfer from A signed by W1, the owner A was created with, after A
\* has been handed to W2
C25_Witness ==
    /\ Called("Transfer")
    /\ OwnerCheckReached
    /\ At(2) = A
    /\ At(1) = W1
    /\ SignerAt(1)
    /\ AccountOf(Pre, A).owner = W2
    /\ AmountOf(Pre, A) >= Command.amount
    /\ Command.amount > 0
    /\ call.err = "InvalidArgument"

\* C26: no call panics, and after a successful Transfer(amount) the amount
\* of every account it wrote differs from what it was by exactly amount,
\* as integers: no stored amount is the result of a wrap.
C26_NoWrapNoPanic ==
    ~Called("Idle") =>
        /\ call.err # "Panic"
        /\ (Called("Transfer") /\ Succeeded) =>
               \A i \in Written("Transfer") :
                   i <= NumAccounts =>
                       AmountOf(data, At(i)) - AmountOf(Pre, At(i))
                           \in {Command.amount, 0 - Command.amount}

\* the sum of the amounts the accounts of S hold in d
RECURSIVE SumOfAmounts(_, _)
SumOfAmounts(d, S) ==
    IF S = {} THEN 0
    ELSE LET k == CHOOSE x \in S : TRUE IN AmountOf(d, k) + SumOfAmounts(d, S \ {k})

\* the holding accounts of token T among the accounts of the token program
HoldingAccounts(d, T) ==
    {k \in Keys : /\ ProgramOf(k) = TokenProgram
                  /\ IsHolding(d, k)
                  /\ AccountOf(d, k).token = T}

\* what the holding accounts of token T hold together
Circulating(d, T) == SumOfAmounts(d, HoldingAccounts(d, T))

\* C27: for every token T, the holding accounts of T together hold 0 while
\* the account T is Unallocated and at most the supply of the descriptor
\* once T is a Token, and a successful Transfer leaves what they hold
\* together as it was.
C27_NoValueForged ==
    \A T \in Keys :
        /\ IsUnallocated(data, T) => Circulating(data, T) = 0
        /\ IsToken(data, T) => Circulating(data, T) <= StateOf(data, T).token.supply
        /\ (Called("Transfer") /\ Succeeded) => Circulating(data, T) = Circulating(Pre, T)

\* the fields of an Account no instruction rewrites
FixedFields(d, k) ==
    LET a == AccountOf(d, k) IN
    << a.token, a.delegate.some, IF a.delegate.some THEN a.delegate.source ELSE NoKey >>

\* C28: a buffer that held an Account before a call holds an Account after
\* it, with the same token, still a delegate record or still a holding
\* account, and with the same delegate.source; a call changes at most its
\* amount, owner and delegate.original_amount.
C28_AccountIdentityFixed ==
    ~Called("Idle") =>
        \A k \in Keys :
            (data[k] # Pre[k] /\ IsAccount(Pre, k)) =>
                /\ IsAccount(data, k)
                /\ FixedFields(data, k) = FixedFields(Pre, k)

\* a successful Approve has changed the original_amount of a delegate record
C28_Witness ==
    /\ Called("Approve") /\ Succeeded
    /\ IsDelegate(Pre, At(3)) /\ IsDelegate(data, At(3))
    /\ AccountOf(data, At(3)).delegate.original_amount
           # AccountOf(Pre, At(3)).delegate.original_amount
    /\ AccountOf(data, At(3)).delegate.source = AccountOf(Pre, At(3)).delegate.source

====
